---------------------------- MODULE Spec2Model ----------------------------
(***************************************************************************)
(* State-machine model of the checkpoint/resume control core:              *)
(*   CheckpointHandler (src/CheckpointHandler.py),                         *)
(*   DrrTrainer.modify_grads (src/DistributedOptimizationProcedures/       *)
(*   DrrProcedure.py) and WikipediaDatasets.get_subset                     *)
(*   (src/Datasets/Wiki40BDataset.py).                                     *)
(***************************************************************************)
EXTENDS Integers, Sequences, FiniteSets, TLC

\* ------------------------------------------------------------------ bounds
MaxTime == 8        \* the wall clock runs over 0..MaxTime
MaxEvery == 2       \* checkpoint_every is drawn from 1..MaxEvery
MaxRuntime == 2     \* max_runtime is drawn from 0..MaxRuntime
FrameSize == 3      \* items that one write (one read) of the stream transfers
NumParams == 2      \* the model has NumParams parameters
MaxChunks == 3      \* a dataset holds 1..MaxChunks chunks
MaxSeqLen == 2      \* of sequence length 1..MaxSeqLen
MaxToken == 7       \* start_token and end_token are drawn from -MaxToken..MaxToken

\* ------------------------------------------------------------------ values
Handlers == {"A", "B"}

NoDir == "None"                 \* checkpoint_dir=None (the default argument)
ScriptDir == "src"              \* os.path.dirname(os.path.abspath(__file__))
None == "None"                  \* Python's None as a returned state dict

\* (experiment_name, checkpoint_dir) a handler may be constructed with
HandlerArgs == {<<"exp1", NoDir>>, <<"exp1", ScriptDir>>, <<"exp2", NoDir>>}

\* (epoch, chunk) arguments of update
UpdateArgs == {<<0, 1>>, <<3, 40>>}

LogKeys == {"train_loss", "train_loss_X", "train_loss_X_epoch",
            "runtime_per_250_batches", "l0_norm", "l0_norm_X",
            "l0_norm_X_epoch"}

initialize_logs_no_epoch_keys == [k \in LogKeys \ {"train_loss_X_epoch", "l0_norm_X_epoch"} |-> <<>>]

initialize_logs == [k \in LogKeys |-> <<>>]

\* logs with train_loss = [0.9, 0.7], in tenths
LogsWithLoss == [initialize_logs EXCEPT !["train_loss"] = <<9, 7>>]

\* (model state dict, optimizer state dict, logs) a caller may hand to
\* save_checkpoint; the state dicts are opaque blobs
SaveArgs == {<<"m1", "o1", initialize_logs>>, <<"m2", "o2", LogsWithLoss>>}

\* ------------------------------------------------------------------ state
VARIABLES
    clock,              \* time.time()
    experiment_name,    \* self.experiment_name, per handler
    checkpoint_dir,     \* self.checkpoint_dir
    checkpoint_path,    \* self.checkpoint_path
    epoch,              \* self.epoch
    chunk,              \* self.chunk
    start_time,         \* self.start_time
    last_check_time,    \* self.last_check_time
    checkpoint_every,   \* self.checkpoint_every
    max_runtime,        \* self.max_runtime
    fs,                 \* the file system: path -> [exists, data]
    ret,                \* what the last call returned (or raised), and to whom
    last_update,        \* history: the arguments of a handler's last update call,
                        \*          while no load_checkpoint replaced the position
    saved,              \* history: path -> what the last completed save was given
    returned_true,      \* history: the times at which should_checkpoint returned True
    io,                 \* per handler: the save or load in progress (open file, offset)
    written_by,         \* history: path -> per item of the file, the dict of the
                        \*          save_checkpoint call that wrote it
    alpha,              \* DrrTrainer.alpha
    beta,               \* DrrTrainer.beta
    parameters,         \* ddp_model.parameters(): each with .data and .grad
    drr_pc,             \* where the optimization step stands
    dataset,            \* a ByteWikipediaDataset: .data, the list of chunks
    subset              \* the last get_subset call: its arguments and outcome

handlerVars == <<experiment_name, checkpoint_dir, checkpoint_path, epoch, chunk,
                 start_time, last_check_time, checkpoint_every, max_runtime>>
historyVars == <<last_update, saved, returned_true>>
ckptVars == <<clock, handlerVars, fs, ret, historyVars, io, written_by>>
drrVars == <<alpha, beta, parameters, drr_pc>>
dataVars == <<dataset, subset>>
vars == <<ckptVars, drrVars, dataVars>>

\* ------------------------------------------------------------------ paths
\* os.path.join(checkpoint_dir, f"{experiment_name}_checkpoint.pkl")
PathJoin(dir, name) == <<dir, name \o "_checkpoint.pkl">>

\* checkpoint_dir or os.path.dirname(os.path.abspath(__file__))
DirOrDefault(dir) == IF dir = NoDir THEN ScriptDir ELSE dir

Paths == {PathJoin(DirOrDefault(a[2]), a[1]) : a \in HandlerArgs}

\* ------------------------------------------------------------------ pickle
\* pickle.dump writes the dict as a stream of items closed by a STOP opcode;
\* pickle.load rebuilds the dict from a stream that reaches STOP and raises
\* (EOFError / UnpicklingError) on any other stream.
CheckpointKeys == <<"epoch", "chunk", "model_state_dict", "optimizer_state_dict", "logs">>
StopItem == <<"STOP", "">>

Dumps(checkpoint) ==
    [i \in 1..Len(CheckpointKeys) |-> <<CheckpointKeys[i], checkpoint[CheckpointKeys[i]]>>]
        \o <<StopItem>>

WellFormed(data) ==
    /\ Len(data) = Len(CheckpointKeys) + 1
    /\ \A i \in 1..Len(CheckpointKeys) : data[i][1] = CheckpointKeys[i]
    /\ data[Len(data)][1] = "STOP"

Loads(data) ==
    [k \in {CheckpointKeys[i] : i \in 1..Len(CheckpointKeys)} |->
        data[CHOOSE i \in 1..Len(CheckpointKeys) : CheckpointKeys[i] = k][2]]

NoFile == [exists |-> FALSE, data |-> <<>>]

\* ------------------------------------------------------------------ returns
\* One shape for every return value: flag is should_checkpoint's result,
\* (model, optimizer, logs) is load_checkpoint's tuple, raised marks an
\* exception that left the call.
Ret(h, op, flag, model, optimizer, logs, raised) ==
    [h |-> h, op |-> op, flag |-> flag, model |-> model, optimizer |-> optimizer,
     logs |-> logs, raised |-> raised]

RetNone(h, op) == Ret(h, op, FALSE, None, None, initialize_logs, FALSE)
RetFlag(h, op, flag) == Ret(h, op, flag, None, None, initialize_logs, FALSE)

\* ------------------------------------------------------------------ update
update(h, e, c) ==
    /\ epoch' = [epoch EXCEPT ![h] = e]
    /\ chunk' = [chunk EXCEPT ![h] = c]
    /\ ret' = RetNone(h, "update")
    /\ UNCHANGED <<clock, experiment_name, checkpoint_dir, checkpoint_path,
                   start_time, last_check_time, checkpoint_every, max_runtime, fs>>

\* ------------------------------------------------------------------ save_checkpoint
\* the dict built at lines 35-41
CheckpointDictStaleChunk(h, model, optimizer, logs) ==
    [epoch |-> epoch[h], chunk |-> 0, model_state_dict |-> model,
     optimizer_state_dict |-> optimizer, logs |-> logs]

CheckpointDict(h, model, optimizer, logs) ==
    [epoch |-> epoch[h], chunk |-> chunk[h], model_state_dict |-> model,
     optimizer_state_dict |-> optimizer, logs |-> logs]

\* open(path, 'wb') and pickle.dump, run to completion
save_checkpoint(h, model, optimizer, logs) ==
    /\ fs' = [fs EXCEPT ![checkpoint_path[h]] =
                [exists |-> TRUE, data |-> Dumps(CheckpointDict(h, model, optimizer, logs))]]
    /\ ret' = RetNone(h, "save_checkpoint")
    /\ UNCHANGED <<clock, handlerVars>>

\* ------------------------------------------------------------------ load_checkpoint
load_checkpoint_keeps_position(h) ==
    LET f == fs[checkpoint_path[h]] IN
    /\ IF f.exists /\ WellFormed(f.data)
         THEN ret' = Ret(h, "load_checkpoint", FALSE, Loads(f.data).model_state_dict,
                         Loads(f.data).optimizer_state_dict, Loads(f.data).logs, FALSE)
         ELSE IF f.exists
         THEN ret' = Ret(h, "load_checkpoint", FALSE, None, None, initialize_logs, TRUE)
         ELSE ret' = Ret(h, "load_checkpoint", FALSE, None, None, initialize_logs, FALSE)
    /\ UNCHANGED <<epoch, chunk>>
    /\ UNCHANGED <<clock, experiment_name, checkpoint_dir, checkpoint_path,
                   start_time, last_check_time, checkpoint_every, max_runtime, fs>>

load_checkpoint(h) ==
    LET f == fs[checkpoint_path[h]] IN
    /\ IF f.exists /\ WellFormed(f.data)
         THEN LET checkpoint == Loads(f.data) IN
              /\ epoch' = [epoch EXCEPT ![h] = checkpoint.epoch]
              /\ chunk' = [chunk EXCEPT ![h] = checkpoint.chunk]
              /\ ret' = Ret(h, "load_checkpoint", FALSE, checkpoint.model_state_dict,
                            checkpoint.optimizer_state_dict, checkpoint.logs, FALSE)
         ELSE IF f.exists
         THEN \* pickle.load raises; nothing was assigned
              /\ UNCHANGED <<epoch, chunk>>
              /\ ret' = Ret(h, "load_checkpoint", FALSE, None, None, initialize_logs, TRUE)
         ELSE /\ UNCHANGED <<epoch, chunk>>
              /\ ret' = Ret(h, "load_checkpoint", FALSE, None, None, initialize_logs, FALSE)
    /\ UNCHANGED <<clock, experiment_name, checkpoint_dir, checkpoint_path,
                   start_time, last_check_time, checkpoint_every, max_runtime, fs>>

\* ------------------------------------------------------------------ should_checkpoint
should_checkpoint_ungated(h, current_time) ==
    /\ last_check_time' = [last_check_time EXCEPT ![h] = current_time]
    /\ ret' = RetFlag(h, "should_checkpoint", current_time - start_time[h] > max_runtime[h])
    /\ UNCHANGED <<experiment_name, checkpoint_dir, checkpoint_path, epoch, chunk,
                   start_time, checkpoint_every, max_runtime, fs>>

should_checkpoint_always_stamps(h, current_time) ==
    /\ last_check_time' = [last_check_time EXCEPT ![h] = current_time]
    /\ ret' = RetFlag(h, "should_checkpoint",
                      /\ current_time - last_check_time[h] > checkpoint_every[h]
                      /\ current_time - start_time[h] > max_runtime[h])
    /\ UNCHANGED <<experiment_name, checkpoint_dir, checkpoint_path, epoch, chunk,
                   start_time, checkpoint_every, max_runtime, fs>>

should_checkpoint_latched(h, current_time) ==
    /\ IF current_time - last_check_time[h] > checkpoint_every[h]
         THEN last_check_time' = [last_check_time EXCEPT ![h] = current_time]
         ELSE UNCHANGED last_check_time
    /\ ret' = RetFlag(h, "should_checkpoint",
                      \/ current_time - last_check_time[h] > checkpoint_every[h]
                         /\ current_time - start_time[h] > max_runtime[h]
                      \/ ret.op = "should_checkpoint" /\ ret.h = h /\ ret.flag)
    /\ UNCHANGED <<experiment_name, checkpoint_dir, checkpoint_path, epoch, chunk,
                   start_time, checkpoint_every, max_runtime, fs>>

should_checkpoint_interval_only(h, current_time) ==
    /\ IF current_time - last_check_time[h] > checkpoint_every[h]
         THEN /\ last_check_time' = [last_check_time EXCEPT ![h] = current_time]
              /\ ret' = RetFlag(h, "should_checkpoint", TRUE)
         ELSE /\ UNCHANGED last_check_time
              /\ ret' = RetFlag(h, "should_checkpoint", FALSE)
    /\ UNCHANGED <<experiment_name, checkpoint_dir, checkpoint_path, epoch, chunk,
                   start_time, checkpoint_every, max_runtime, fs>>

\* current_time is what time.time() returned at line 79
should_checkpoint(h, current_time) ==
    /\ IF current_time - last_check_time[h] > checkpoint_every[h]
         THEN /\ last_check_time' = [last_check_time EXCEPT ![h] = current_time]
              /\ ret' = RetFlag(h, "should_checkpoint",
                                current_time - start_time[h] > max_runtime[h])
         ELSE /\ UNCHANGED last_check_time
              /\ ret' = RetFlag(h, "should_checkpoint", FALSE)
    /\ UNCHANGED <<experiment_name, checkpoint_dir, checkpoint_path, epoch, chunk,
                   start_time, checkpoint_every, max_runtime, fs>>


\* ------------------------------------------------------------------ DrrTrainer
\* Gradients are fixed-point numbers in thousandths; weights, alpha and beta
\* are whole numbers.
Weights == {-2, 0, 1}
GradValues == {-500, 250}
Alphas == {1, 3}
Betas == {1, 2}

\* torch.sign
Sign(x) == IF x > 0 THEN 1 ELSE IF x < 0 THEN -1 ELSE 0

\* torch.abs
Abs(x) == IF x < 0 THEN -x ELSE x

\* torch.exp(-k) in thousandths, for whole k >= 0
ExpNeg(k) ==
    CASE k = 0 -> 1000
      [] k = 1 -> 368
      [] k = 2 -> 135
      [] k = 3 -> 50
      [] k = 4 -> 18
      [] k = 5 -> 7
      [] k = 6 -> 2
      [] OTHER -> 0

NoGrad == [is_tensor |-> FALSE, v |-> <<>>]

\* the tensors of n elements a parameter may be after backward: its .grad is
\* a tensor of the same shape or None
ParamsOfSize(n) ==
    [data : [1..n -> Weights],
     grad : {NoGrad} \cup {[is_tensor |-> TRUE, v |-> g] : g \in [1..n -> GradValues]}]

\* the shapes of the model's parameters: one element and two, in turn
Shape(i) == ((i - 1) % 2) + 1

\* the parameter lists a model may hold: parameter i has Shape(i) elements
ParameterLists ==
    {ps \in [1..NumParams -> UNION {ParamsOfSize(Shape(i)) : i \in 1..NumParams}] :
        \A i \in 1..NumParams : Len(ps[i].data) = Shape(i)}

modify_grad_without_sign(param) ==
    IF param.grad.is_tensor
    THEN [param EXCEPT !.grad.v =
            [j \in 1..Len(param.data) |->
                param.grad.v[j] + alpha * beta * ExpNeg(beta * Abs(param.data[j]))]]
    ELSE param

modify_grad_on_none(param) ==
    [param EXCEPT !.grad =
        [is_tensor |-> TRUE,
         v |-> [j \in 1..Len(param.data) |->
                (IF param.grad.is_tensor THEN param.grad.v[j] ELSE 0)
                + alpha * beta * Sign(param.data[j]) * ExpNeg(beta * Abs(param.data[j]))]]]

modify_grad(param) ==
    IF param.grad.is_tensor
    THEN [param EXCEPT !.grad.v =
            [j \in 1..Len(param.data) |->
                param.grad.v[j]
                + alpha * beta * Sign(param.data[j]) * ExpNeg(beta * Abs(param.data[j]))]]
    ELSE param

\* for param in self.ddp_model.parameters(): self.modify_grad(param)
modify_grads ==
    /\ parameters' = [i \in 1..Len(parameters) |-> modify_grad(parameters[i])]
    /\ UNCHANGED <<alpha, beta>>

\* ------------------------------------------------------------------ get_subset
\* list[a:b] as Python slices a list
PySlice(list, a, b) ==
    LET n == Len(list)
        lo == IF a < 0 THEN (IF a + n < 0 THEN 0 ELSE a + n) ELSE (IF a > n THEN n ELSE a)
        hi == IF b < 0 THEN (IF b + n < 0 THEN 0 ELSE b + n) ELSE (IF b > n THEN n ELSE b)
    IN IF lo < hi THEN SubSeq(list, lo + 1, hi) ELSE <<>>

NoCall == [called |-> FALSE, start_token |-> 0, end_token |-> 0, raised |-> FALSE,
           error |-> "", data |-> <<>>, split |-> ""]

Raised(start_token, end_token, error) ==
    [called |-> TRUE, start_token |-> start_token, end_token |-> end_token,
     raised |-> TRUE, error |-> error, data |-> <<>>, split |-> ""]

get_subset_end_unchecked(start_token, end_token) ==
    LET sequence_length == Len(dataset.data[1]) IN
    /\ subset' =
         IF start_token % sequence_length # 0
         THEN Raised(start_token, end_token, "Start token must be a multiple of the sequence length")
         ELSE IF ~(start_token < end_token)
         THEN Raised(start_token, end_token, "Start token must be smaller than end token")
         ELSE [called |-> TRUE, start_token |-> start_token, end_token |-> end_token,
               raised |-> FALSE, error |-> "",
               data |-> PySlice(dataset.data, start_token \div sequence_length,
                                end_token \div sequence_length),
               split |-> dataset.split]
    /\ UNCHANGED dataset

get_subset_in_place(start_token, end_token) ==
    LET sequence_length == Len(dataset.data[1])
        ok == /\ start_token % sequence_length = 0
              /\ end_token % sequence_length = 0
              /\ start_token < end_token
        sliced == PySlice(dataset.data, start_token \div sequence_length,
                          end_token \div sequence_length)
    IN
    /\ subset' = IF ok
                  THEN [called |-> TRUE, start_token |-> start_token, end_token |-> end_token,
                        raised |-> FALSE, error |-> "", data |-> sliced, split |-> dataset.split]
                  ELSE Raised(start_token, end_token, "AssertionError")
    /\ dataset' = IF ok /\ sliced # <<>> THEN [dataset EXCEPT !.data = sliced] ELSE dataset

get_subset(start_token, end_token) ==
    LET sequence_length == Len(dataset.data[1]) IN
    /\ subset' =
         IF start_token % sequence_length # 0
         THEN Raised(start_token, end_token, "Start token must be a multiple of the sequence length")
         ELSE IF end_token % sequence_length # 0
         THEN Raised(start_token, end_token, "End token must be a multiple of the sequence length")
         ELSE IF ~(start_token < end_token)
         THEN Raised(start_token, end_token, "Start token must be smaller than end token")
         ELSE \* subset = copy.deepcopy(dataset); subset.data = subset.data[start_chunk:end_chunk]
              [called |-> TRUE, start_token |-> start_token, end_token |-> end_token,
               raised |-> FALSE, error |-> "",
               data |-> PySlice(dataset.data, start_token \div sequence_length,
                                end_token \div sequence_length),
               split |-> dataset.split]
    /\ UNCHANGED dataset

\* ------------------------------------------------------------------ actions
NoUpdate == [called |-> FALSE, epoch |-> 0, chunk |-> 0]
NothingSaved == [valid |-> FALSE, epoch |-> 0, chunk |-> 0, model |-> None,
                 optimizer |-> None, logs |-> initialize_logs]

\* the wall clock advances
Tick ==
    /\ clock < MaxTime
    /\ clock' = clock + 1
    /\ UNCHANGED <<handlerVars, fs, ret, historyVars, io, written_by, drrVars, dataVars>>

Idle == [pc |-> "idle", pos |-> 0, buf |-> <<>>, by |-> <<>>]

Update(h) ==
    \E a \in UpdateArgs :
        /\ io[h].pc = "idle"
        /\ update(h, a[1], a[2])
        /\ UNCHANGED <<io, written_by, drrVars, dataVars>>
        /\ last_update' = [last_update EXCEPT ![h] =
                              [called |-> TRUE, epoch |-> a[1], chunk |-> a[2]]]
        /\ UNCHANGED <<saved, returned_true>>

Save(h) ==
    \E a \in SaveArgs :
        /\ io[h].pc = "idle"
        /\ save_checkpoint(h, a[1], a[2], a[3])
        /\ written_by' = [written_by EXCEPT ![checkpoint_path[h]] =
                             [i \in 1..Len(CheckpointKeys) + 1 |->
                                 CheckpointDict(h, a[1], a[2], a[3])]]
        /\ UNCHANGED <<io, drrVars, dataVars>>
        /\ saved' = [saved EXCEPT ![checkpoint_path[h]] =
                        [valid |-> TRUE, epoch |-> epoch[h], chunk |-> chunk[h],
                         model |-> a[1], optimizer |-> a[2], logs |-> a[3]]]
        /\ UNCHANGED <<last_update, returned_true>>

Load(h) ==
    /\ io[h].pc = "idle"
    /\ load_checkpoint(h)
    /\ UNCHANGED <<io, written_by, drrVars, dataVars>>
    /\ last_update' = IF fs[checkpoint_path[h]].exists /\ ~ret'.raised
                        THEN [last_update EXCEPT ![h] = NoUpdate]
                        ELSE last_update
    /\ UNCHANGED <<saved, returned_true>>

ShouldCheckpoint(h) ==
    /\ io[h].pc = "idle"
    /\ should_checkpoint(h, clock)
    /\ UNCHANGED <<io, written_by, drrVars, dataVars>>
    /\ UNCHANGED clock
    /\ returned_true' = IF ret'.flag
                          THEN [returned_true EXCEPT ![h] = @ \cup {clock}]
                          ELSE returned_true
    /\ UNCHANGED <<last_update, saved>>

\* One iteration of a loop that polls: d seconds pass (at most
\* checkpoint_every), then should_checkpoint is called.
Poll(h) ==
    \E d \in 0..checkpoint_every[h] :
        /\ io[h].pc = "idle"
        /\ clock + d <= MaxTime
        /\ clock' = clock + d
        /\ UNCHANGED <<io, written_by, drrVars, dataVars>>
        /\ should_checkpoint(h, clock + d)
        /\ returned_true' = IF ret'.flag
                              THEN [returned_true EXCEPT ![h] = @ \cup {clock + d}]
                              ELSE returned_true
        /\ UNCHANGED <<last_update, saved>>

\* ------------------------------------------------------------------ file I/O, step by step
\* save_checkpoint and load_checkpoint as the operating system sees them:
\* open, then the writes (reads) of the stream in pieces of up to FrameSize
\* items, with other processes running in between.

\* the file after `items` (each tagged `tag` in the history) is written at offset pos
WriteAt(data, pos, items, hole) ==
    LET n == IF Len(data) > pos + Len(items) THEN Len(data) ELSE pos + Len(items) IN
    [i \in 1..n |-> IF i > pos /\ i <= pos + Len(items) THEN items[i - pos]
                     ELSE IF i <= Len(data) THEN data[i]
                     ELSE hole]

Hole == <<"HOLE", "">>

Min2(a, b) == IF a < b THEN a ELSE b

\* the items of a stream prefix are the ones pickle.load accepts at their places
PrefixOk(buf) ==
    \A i \in 1..Len(buf) :
        IF i <= Len(CheckpointKeys) THEN buf[i][1] = CheckpointKeys[i]
        ELSE i = Len(CheckpointKeys) + 1 /\ buf[i][1] = "STOP"

\* lines 35-42: the dict is built from self.epoch and self.chunk, and
\* open(path, 'wb') creates the file or truncates it to nothing
BeginSave(h) ==
    \E a \in SaveArgs :
        /\ io[h].pc = "idle"
        /\ fs' = [fs EXCEPT ![checkpoint_path[h]] = [exists |-> TRUE, data |-> <<>>]]
        /\ written_by' = [written_by EXCEPT ![checkpoint_path[h]] = <<>>]
        /\ io' = [io EXCEPT ![h] =
                     [pc |-> "saving", pos |-> 0,
                      buf |-> Dumps(CheckpointDict(h, a[1], a[2], a[3])), by |-> <<>>]]
        /\ ret' = RetNone(h, "pending")
        /\ UNCHANGED <<clock, handlerVars, historyVars, drrVars, dataVars>>

\* line 43: pickle.dump writes the next piece; after the last one the call returns
WriteStep(h) ==
    /\ io[h].pc = "saving"
    /\ \E n \in {Min2(FrameSize, Len(io[h].buf) - io[h].pos)} :
        LET p == checkpoint_path[h]
            d == Loads(io[h].buf)
            items == SubSeq(io[h].buf, io[h].pos + 1, io[h].pos + n)
        IN
        /\ fs' = [fs EXCEPT ![p].data = WriteAt(@, io[h].pos, items, Hole)]
        /\ written_by' = [written_by EXCEPT ![p] =
                             WriteAt(@, io[h].pos, [i \in 1..n |-> d], d)]
        /\ IF io[h].pos + n = Len(io[h].buf)
             THEN /\ io' = [io EXCEPT ![h] = Idle]
                  /\ ret' = RetNone(h, "save_checkpoint")
                  /\ saved' = [saved EXCEPT ![p] =
                                  [valid |-> TRUE, epoch |-> d.epoch, chunk |-> d.chunk,
                                   model |-> d.model_state_dict,
                                   optimizer |-> d.optimizer_state_dict, logs |-> d.logs]]
             ELSE /\ io' = [io EXCEPT ![h].pos = @ + n]
                  /\ UNCHANGED <<ret, saved>>
    /\ UNCHANGED <<clock, handlerVars, last_update, returned_true, drrVars, dataVars>>

\* the process is killed inside save_checkpoint; what it wrote stays on disk
Kill(h) ==
    /\ io[h].pc = "saving"
    /\ io' = [io EXCEPT ![h] = [Idle EXCEPT !.pc = "killed"]]
    /\ ret' = RetNone(h, "killed")
    /\ UNCHANGED <<clock, handlerVars, fs, historyVars, written_by, drrVars, dataVars>>

\* lines 8-25: the next process of the run constructs its handler
Restart(h) ==
    /\ io[h].pc = "killed"
    /\ epoch' = [epoch EXCEPT ![h] = 0]
    /\ chunk' = [chunk EXCEPT ![h] = 0]
    /\ start_time' = [start_time EXCEPT ![h] = clock]
    /\ last_check_time' = [last_check_time EXCEPT ![h] = clock]
    /\ io' = [io EXCEPT ![h] = Idle]
    /\ ret' = RetNone(h, "__init__")
    /\ last_update' = [last_update EXCEPT ![h] = NoUpdate]
    /\ returned_true' = [returned_true EXCEPT ![h] = {}]
    /\ UNCHANGED <<clock, experiment_name, checkpoint_dir, checkpoint_path,
                   checkpoint_every, max_runtime, fs, saved, written_by, drrVars, dataVars>>

\* lines 52-53 and 59-61: os.path.exists, then open(path, 'rb') or the
\* fresh-start return
BeginLoad(h) ==
    /\ io[h].pc = "idle"
    /\ IF fs[checkpoint_path[h]].exists
         THEN /\ io' = [io EXCEPT ![h] = [Idle EXCEPT !.pc = "loading"]]
              /\ ret' = RetNone(h, "pending")
         ELSE /\ io' = [io EXCEPT ![h] = Idle]
              /\ ret' = Ret(h, "load_checkpoint", FALSE, None, None, initialize_logs, FALSE)
    /\ UNCHANGED <<clock, handlerVars, fs, historyVars, written_by, drrVars, dataVars>>

\* lines 54-58: pickle.load reads the next piece at its offset; it raises at
\* the end of the file or on an item it cannot decode, and returns the dict
\* once it has read STOP
ReadStep(h) ==
    LET p == checkpoint_path[h]
        data == fs[p].data
        pos == io[h].pos
    IN
    /\ io[h].pc = "loading"
    /\ IF pos >= Len(data)
         THEN /\ io' = [io EXCEPT ![h] = Idle]
              /\ ret' = Ret(h, "load_checkpoint", FALSE, None, None, initialize_logs, TRUE)
              /\ UNCHANGED <<epoch, chunk, last_update>>
         ELSE \E n \in {Min2(FrameSize, Len(data) - pos)} :
              LET buf == io[h].buf \o SubSeq(data, pos + 1, pos + n)
                  by == io[h].by \o SubSeq(written_by[p], pos + 1, pos + n)
              IN
              IF ~PrefixOk(buf)
              THEN /\ io' = [io EXCEPT ![h] = Idle]
                   /\ ret' = Ret(h, "load_checkpoint", FALSE, None, None, initialize_logs, TRUE)
                   /\ UNCHANGED <<epoch, chunk, last_update>>
              ELSE IF Len(buf) = Len(CheckpointKeys) + 1
              THEN LET checkpoint == Loads(buf) IN
                   /\ epoch' = [epoch EXCEPT ![h] = checkpoint.epoch]
                   /\ chunk' = [chunk EXCEPT ![h] = checkpoint.chunk]
                   /\ ret' = Ret(h, "load_checkpoint", FALSE, checkpoint.model_state_dict,
                                 checkpoint.optimizer_state_dict, checkpoint.logs, FALSE)
                   /\ io' = [io EXCEPT ![h] = [Idle EXCEPT !.by = by]]
                   /\ last_update' = [last_update EXCEPT ![h] = NoUpdate]
              ELSE /\ io' = [io EXCEPT ![h] = [pc |-> "loading", pos |-> pos + n,
                                                buf |-> buf, by |-> by]]
                   /\ UNCHANGED <<epoch, chunk, ret, last_update>>
    /\ UNCHANGED <<clock, experiment_name, checkpoint_dir, checkpoint_path, start_time,
                   last_check_time, checkpoint_every, max_runtime, fs, saved,
                   returned_true, written_by, drrVars, dataVars>>

\* ------------------------------------------------------------------ specifications
InitHistory ==
    /\ last_update = [h \in Handlers |-> NoUpdate]
    /\ saved = [p \in Paths |-> NothingSaved]
    /\ returned_true = [h \in Handlers |-> {}]

\* Two runs of one training script: A was constructed for exp1 with the
\* default directory, B with any of the argument pairs; no checkpoint yet.
InitCkpt ==
    /\ clock = 0
    /\ \E b \in HandlerArgs, every \in 1..MaxEvery, maxrt \in 0..MaxRuntime :
          /\ experiment_name = [h \in Handlers |-> IF h = "A" THEN "exp1" ELSE b[1]]
          /\ checkpoint_dir = [h \in Handlers |-> IF h = "A" THEN ScriptDir ELSE DirOrDefault(b[2])]
          /\ checkpoint_path = [h \in Handlers |->
                                  PathJoin(checkpoint_dir[h], experiment_name[h])]
          /\ checkpoint_every = [h \in Handlers |-> every]
          /\ max_runtime = [h \in Handlers |-> maxrt]
    /\ epoch = [h \in Handlers |-> 0]
    /\ chunk = [h \in Handlers |-> 0]
    /\ start_time = [h \in Handlers |-> clock]
    /\ last_check_time = [h \in Handlers |-> start_time[h]]
    /\ fs = [p \in Paths |-> NoFile]
    /\ ret = RetNone("A", "__init__")
    /\ io = [h \in Handlers |-> Idle]
    /\ written_by = [p \in Paths |-> <<>>]
    /\ InitHistory

\* the trainer and the dataset, at rest
InitDrrIdle ==
    /\ alpha = 1
    /\ beta = 1
    /\ parameters = <<>>
    /\ drr_pc = "idle"

InitDataIdle ==
    /\ dataset = [data |-> <<>>, split |-> "train"]
    /\ subset = NoCall

Init == InitCkpt /\ InitDrrIdle /\ InitDataIdle

\* The checkpoint store as two runs use it.
Next ==
    \/ \E h \in Handlers : Update(h)
    \/ \E h \in Handlers : Save(h)
    \/ \E h \in Handlers : Load(h)

Spec == Init /\ [][Next]_vars

\* One run, A, with the wall clock running: every operation of its handler.
NextRun ==
    \/ Tick
    \/ ShouldCheckpoint("A")
    \/ Update("A")
    \/ Save("A")
    \/ Load("A")

SpecRun == Init /\ [][NextRun]_vars

\* Run A polls should_checkpoint continuously from construction on.
NextPoll == Poll("A")

SpecPoll == Init /\ [][NextPoll]_vars

\* Two processes of one experiment that share the checkpoint file, with the
\* file operations of save_checkpoint and load_checkpoint interleaved: A is
\* the one process that writes checkpoints (it trains, saves, may be killed
\* while saving and be started again), B is a process that loads.
InitCkptOne ==
    /\ InitCkpt
    /\ checkpoint_path["B"] = checkpoint_path["A"]
    /\ checkpoint_every["A"] = 1
    /\ max_runtime["A"] = 0

InitIO == InitCkptOne /\ InitDrrIdle /\ InitDataIdle
NextIO ==
    \/ Update("A")
    \/ BeginSave("A")
    \/ WriteStep("A")
    \/ Kill("A")
    \/ Restart("A")
    \/ BeginLoad("B")
    \/ ReadStep("B")

SpecIO == InitIO /\ [][NextIO]_vars

\* One optimization step of a DRR run: backward has left the gradients,
\* modify_grads is called once before the optimizer steps.
ModifyGrads ==
    /\ drr_pc = "backward_done"
    /\ modify_grads
    /\ drr_pc' = "grads_modified"
    /\ UNCHANGED <<ckptVars, dataVars>>

InitDrr ==
    /\ InitCkptOne
    /\ InitDataIdle
    /\ alpha \in Alphas
    /\ beta \in Betas
    /\ parameters \in ParameterLists
    /\ drr_pc = "backward_done"

NextDrr == ModifyGrads

SpecDrr == InitDrr /\ [][NextDrr]_vars

\* A dataset whose chunk i holds sequence_length bytes of value i, and
\* calls of get_subset on it.
Datasets ==
    {[data |-> [i \in 1..n |-> [j \in 1..L |-> i]], split |-> "train"] :
        n \in 1..MaxChunks, L \in 1..MaxSeqLen}

GetSubset ==
    \E start_token \in -MaxToken..MaxToken, end_token \in -MaxToken..MaxToken :
        /\ get_subset(start_token, end_token)
        /\ UNCHANGED <<ckptVars, drrVars>>

InitData ==
    /\ InitCkptOne
    /\ InitDrrIdle
    /\ dataset \in Datasets
    /\ subset = NoCall

NextData == GetSubset

SpecData == InitData /\ [][NextData]_vars

\* ------------------------------------------------------------------ claims
Max(S) == CHOOSE x \in S : \A y \in S : y <= x

\* The step is a call of op on handler h that has just returned.
IsCall(op, h) == ret'.op = op /\ ret'.h = h /\ clock' = clock

\* The state is the one a call of op on handler h returned in.
Returned(op, h) == ret.op = op /\ ret.h = h

C3_LoadReturnsWhatWasSaved ==
    \A h \in Handlers :
        (Returned("load_checkpoint", h) /\ saved[checkpoint_path[h]].valid) =>
            LET s == saved[checkpoint_path[h]] IN
            /\ ~ret.raised
            /\ ret.model = s.model
            /\ ret.optimizer = s.optimizer
            /\ ret.logs = s.logs
            /\ epoch[h] = s.epoch
            /\ chunk[h] = s.chunk

\* C3 witness: run B, which never called update, loaded the checkpoint that
\* run A saved at position (3, 40) with train_loss = [0.9, 0.7].
C3_Witness ==
    /\ Returned("load_checkpoint", "B")
    /\ ~last_update["B"].called
    /\ last_update["A"].called
    /\ epoch["B"] = 3 /\ chunk["B"] = 40
    /\ ret.model = "m2"
    /\ ret.logs["train_loss"] = <<9, 7>>

\* C4: after update calls (interleaved with should_checkpoint calls and
\* earlier saves) followed by save_checkpoint, the epoch and chunk in the
\* persisted record are the arguments of the last update call.
C4_SavedPositionIsLastUpdate ==
    \A h \in Handlers :
        (Returned("save_checkpoint", h) /\ last_update[h].called) =>
            /\ fs[checkpoint_path[h]].exists
            /\ WellFormed(fs[checkpoint_path[h]].data)
            /\ fs[checkpoint_path[h]].data[1] = <<"epoch", last_update[h].epoch>>
            /\ fs[checkpoint_path[h]].data[2] = <<"chunk", last_update[h].chunk>>

\* C4 witness: run A saved after update(0, 1) had been overwritten by
\* update(3, 40), with a should_checkpoint call that returned True before.
C4_Witness ==
    /\ Returned("save_checkpoint", "A")
    /\ last_update["A"] = [called |-> TRUE, epoch |-> 3, chunk |-> 40]
    /\ returned_true["A"] # {}
    /\ fs[checkpoint_path["A"]].data[2][2] = 40

\* C5 (as claimed): when no checkpoint file exists at the handler's path,
\* load_checkpoint does not fail, returns (None, None, logs) with exactly the
\* seven metric keys each bound to an empty list, and the handler's position
\* after the call is (0, 0).
C5_FreshStartPositionZero ==
    \A h \in Handlers :
        (Returned("load_checkpoint", h) /\ ~fs[checkpoint_path[h]].exists) =>
            /\ ~ret.raised
            /\ ret.model = "None" /\ ret.optimizer = "None"
            /\ DOMAIN ret.logs = {"train_loss", "train_loss_X", "train_loss_X_epoch",
                                   "runtime_per_250_batches", "l0_norm", "l0_norm_X",
                                   "l0_norm_X_epoch"}
            /\ \A k \in DOMAIN ret.logs : ret.logs[k] = <<>>
            /\ epoch[h] = 0 /\ chunk[h] = 0

\* C5 (amended): when no checkpoint file exists at the handler's path,
\* load_checkpoint does not fail, returns (None, None, logs) with exactly the
\* seven metric keys each bound to an empty list, and leaves the handler's
\* position as it was: (0, 0) unless update was called before.
C5_FreshStartKeepsPosition ==
    [][\A h \in Handlers :
        (IsCall("load_checkpoint", h) /\ ~fs[checkpoint_path[h]].exists) =>
            /\ ~ret'.raised
            /\ ret'.model = "None" /\ ret'.optimizer = "None"
            /\ DOMAIN ret'.logs = {"train_loss", "train_loss_X", "train_loss_X_epoch",
                                    "runtime_per_250_batches", "l0_norm", "l0_norm_X",
                                    "l0_norm_X_epoch"}
            /\ \A k \in DOMAIN ret'.logs : ret'.logs[k] = <<>>
            /\ epoch'[h] = epoch[h] /\ chunk'[h] = chunk[h]
            /\ (~last_update[h].called => epoch'[h] = 0 /\ chunk'[h] = 0)
            /\ fs' = fs]_vars

\* C5 witness: run B loaded with no file at its path while run A's
\* checkpoint existed at another path.
C5_Witness ==
    /\ Returned("load_checkpoint", "B")
    /\ ~fs[checkpoint_path["B"]].exists
    /\ fs[checkpoint_path["A"]].exists
    /\ epoch["B"] = 0 /\ chunk["B"] = 0
    /\ ret.model = "None"

Gate(h) == clock - last_check_time[h] > checkpoint_every[h]

C6_LoadNeverMixesSaves ==
    \A h \in Handlers :
        Returned("load_checkpoint", h) =>
            \/ ret.raised
            \/ /\ ret.model = "None" /\ ret.optimizer = "None"
               /\ io[h].by = <<>>
            \/ \E d \in {io[h].by[i] : i \in 1..Len(io[h].by)} :
                  /\ \A i \in 1..Len(io[h].by) : io[h].by[i] = d
                  /\ epoch[h] = d.epoch /\ chunk[h] = d.chunk
                  /\ ret.model = d.model_state_dict
                  /\ ret.optimizer = d.optimizer_state_dict
                  /\ ret.logs = d.logs

\* C7: one call of modify_grads leaves every parameter value w unchanged,
\* leaves a parameter whose gradient is None with its gradient still None,
\* and turns a gradient g into g + alpha*beta*sign(w)*exp(-beta*|w|),
\* element by element, adding it once; the added term is 0 where w = 0.
C7_ModifyGradsAddsDrrTerm ==
    [][(drr_pc = "backward_done" /\ drr_pc' = "grads_modified") =>
        /\ Len(parameters') = Len(parameters)
        /\ \A i \in 1..Len(parameters) :
            LET p == parameters[i]
                q == parameters'[i]
            IN
            /\ q.data = p.data
            /\ q.grad.is_tensor = p.grad.is_tensor
            /\ ~p.grad.is_tensor => q.grad = p.grad
            /\ p.grad.is_tensor =>
                 /\ Len(q.grad.v) = Len(p.grad.v)
                 /\ \A j \in 1..Len(p.data) :
                      LET w == p.data[j]
                          g == p.grad.v[j]
                      IN
                      /\ w > 0 => q.grad.v[j] = g + alpha * beta * ExpNeg(beta * w)
                      /\ w < 0 => q.grad.v[j] = g - alpha * beta * ExpNeg(beta * (0 - w))
                      /\ w = 0 => q.grad.v[j] = g]_vars

\* C7 witness: modify_grads has run on a model whose first parameter has no
\* gradient and whose second has one, with a negative and a zero weight.
C7_Witness ==
    /\ drr_pc = "grads_modified"
    /\ ~parameters[1].grad.is_tensor
    /\ parameters[2].grad.is_tensor
    /\ parameters[2].data[1] = -2
    /\ parameters[2].data[2] = 0
    /\ parameters[2].grad.v[1] = 250 - 3 * 2 * 18
    /\ parameters[2].grad.v[2] = 250
    /\ alpha = 3 /\ beta = 2

\* the call's arguments pass get_subset's checks on dataset ds
ValidRange(ds, call) ==
    /\ call.start_token % Len(ds.data[1]) = 0
    /\ call.end_token % Len(ds.data[1]) = 0
    /\ call.start_token < call.end_token

\* the call returned chunks first..last (counted from 0) of ds, in order
ReturnedChunks(ds, call, first, last) ==
    /\ Len(call.data) = (IF last >= first THEN last - first + 1 ELSE 0)
    /\ \A c \in first..last :
         /\ c + 1 \in DOMAIN ds.data
         /\ call.data[c - first + 1] = ds.data[c + 1]

\* C8 (as claimed): get_subset(start, end, ds) with start and end multiples
\* of L and start < end returns exactly chunks start/L .. end/L - 1 of ds in
\* order and leaves ds unchanged; any other call is rejected with an error
\* and returns no dataset.
C8_SubsetIsExactlyTheRange ==
    [][subset' # subset =>
        /\ dataset' = dataset
        /\ subset'.raised = ~ValidRange(dataset, subset')
        /\ subset'.raised => subset'.data = <<>>
        /\ ~subset'.raised =>
             ReturnedChunks(dataset, subset',
                            subset'.start_token \div Len(dataset.data[1]),
                            subset'.end_token \div Len(dataset.data[1]) - 1)]_vars

\* a chunk index as Python's slice reads it for a list of n chunks
Clip(c, n) == IF c < 0 THEN (IF c + n < 0 THEN 0 ELSE c + n) ELSE (IF c > n THEN n ELSE c)

\* C8 (amended): get_subset(start, end, ds) with start and end multiples of
\* L and start < end returns exactly chunks start/L .. end/L - 1 of ds in
\* order when 0 <= start and end <= L * len(ds); a range that reaches
\* outside the dataset is not rejected and yields the chunks from
\* clip(start/L) to clip(end/L) - 1, where clip cuts an index to 0..len(ds)
\* after counting a negative one from the end; ds is left unchanged; a call
\* with an unaligned start or end, or with start >= end, is rejected with an
\* error and returns no dataset.
C8_SubsetIsTheRangeWithinTheDataset ==
    [][subset' # subset =>
        LET L == Len(dataset.data[1])
            n == Len(dataset.data)
            start == subset'.start_token
            end == subset'.end_token
        IN
        /\ dataset' = dataset
        /\ subset'.raised = ~ValidRange(dataset, subset')
        /\ subset'.raised => subset'.data = <<>>
        /\ (~subset'.raised /\ 0 <= start /\ end <= L * n) =>
             ReturnedChunks(dataset, subset', start \div L, end \div L - 1)
        /\ ~subset'.raised =>
             ReturnedChunks(dataset, subset', Clip(start \div L, n), Clip(end \div L, n) - 1)]_vars

\* C8 witness: get_subset(0, 2*L, ds) returned the first two of three chunks.
C8_Witness ==
    /\ subset.called /\ ~subset.raised
    /\ Len(dataset.data) = 3
    /\ Len(dataset.data[1]) = 2
    /\ subset.start_token = 0 /\ subset.end_token = 4
    /\ subset.data = <<<<1, 1>>, <<2, 2>>>>

=============================================================================
